---- MODULE Spec2Model ----
(***************************************************************************)
(* Model of loocius: the control-list generator (tools/control.py and its  *)
(* predecessor tmp/tools/control.py), the pickled per-subject record       *)
(* (tools/data.py) and the experiment widgets that consume the control     *)
(* list (tools/qt.py, experiments/rdm.py, tmp/experiments/colour-priors.py)*)
(*                                                                         *)
(* Python values are modelled as follows.                                  *)
(*   dict            a function from keys (strings) to values              *)
(*   list of dicts   a sequence of references into a heap of dicts, since  *)
(*                   the code shares and mutates dict objects in place     *)
(*   None | list     {} for None, {l} for the list l                       *)
(*   random choices  (shuffle, randint, the subject's response) are        *)
(*                   nondeterministic choices                              *)
(***************************************************************************)
EXTENDS Integers, Sequences, FiniteSets, TLC

VARIABLES
    gen_args,                \* arguments of the generator call under study
    gen_ret,                 \* {} before the call, {returned value} after it
    files,                   \* the data directory: path -> pickled content
    phase,                   \* "idle" (no widget) or "running" (ExpWidget shown)
    data_obj,                \* ExpWidget.data_obj, the in-memory Data instance
    heap,                    \* the trial dicts that control and results refer to
    current_trial_details,   \* ExpWidget.current_trial_details: a reference, 0 for None
    error,                   \* exception raised by the last operation, "none" if none
    last_call,               \* the last operation and its arguments
    loaded,                  \* what the last Data.load yielded
    gen_count,               \* per (subject, experiment): calls of gen_control so far
    n_runs,                  \* widgets constructed so far
    n_saves,                 \* Data.save calls so far
    history                  \* what has happened: the sessions whose control list
                             \* was worked through, whether every outcome of the
                             \* current session was accepted, and the items left
                             \* on the control list when its widget was made

gen_vars == <<gen_args, gen_ret>>
ses_vars == <<files, phase, data_obj, heap, current_trial_details, error,
              last_call, loaded, gen_count, n_runs, n_saves, history>>
vars == <<gen_args, gen_ret, files, phase, data_obj, heap,
          current_trial_details, error, last_call, loaded, gen_count,
          n_runs, n_saves, history>>

---------------------------------------------------------------------------
(* Bounds of the model *)

MaxReps == 2        \* repetition counts 0..MaxReps in generator calls
MaxLevels == 2      \* levels per factor 0..MaxLevels in generator calls
MaxFactors == 2     \* factors per generator call 0..MaxFactors
MaxList == 4        \* generator calls are explored up to this output length
MaxRuns == 2        \* widgets constructed in one behaviour
MaxSaves == 1       \* Data.save calls in one behaviour
MaxResults == 2     \* outcomes recorded in one session
CPReps == 2         \* stands for the 100 repetitions of ColourPriors.gen_control
RdmReps == 1        \* stands for the 10 repetitions of rdm's gen_control

FactorNames == {"a", "b", "_t"}
LevelVals == {1, 2}

---------------------------------------------------------------------------
(* Python helpers *)

None == {}
Some(x) == {x}
Val(o) == CHOOSE x \in o : TRUE

Range(s) == {s[i] : i \in 1..Len(s)}

\* d[k] = v on a dict
SetItem(d, k, v) == [x \in (DOMAIN d) \cup {k} |-> IF x = k THEN v ELSE d[x]]

\* f[0] for the factor names in use
FirstChar(f) == IF f = "_t" THEN "_" ELSE f

Perms(n) ==
    {p \in [1..n -> 1..n] : \A i, j \in 1..n : p[i] = p[j] => i = j}

\* a shuffle that draws with replacement instead of permuting
Shuffles_resample(x) == {[i \in 1..Len(x) |-> x[p[i]]] : p \in [1..Len(x) -> 1..Len(x)]}

\* random.shuffle(x): x is rearranged by a permutation drawn at random;
\* Shuffles(x) is the set of lists the call may leave in x
Shuffles(x) == {[i \in 1..Len(x) |-> x[p[i]]] : p \in Perms(Len(x))}

\* itertools.product(*levels): tuples in lexicographic order, last factor fastest
RECURSIVE product(_)
product(levels) ==
    IF levels = <<>> THEN << <<>> >>
    ELSE LET h == Head(levels)
             r == product(Tail(levels))
             k == Len(r)
         IN  IF k = 0 THEN <<>>
             ELSE [i \in 1..(Len(h) * k) |->
                      <<h[((i - 1) \div k) + 1]>> \o r[((i - 1) % k) + 1]]

\* list * reps: the same references repeated, no copies
Repeat(l, reps) ==
    IF Len(l) = 0 THEN <<>>
    ELSE [i \in 1..(Len(l) * reps) |-> l[((i - 1) % Len(l)) + 1]]

\* kwargs: the keyword arguments in call order, <<[name, levels], ...>>
Factors(kwargs) == [i \in 1..Len(kwargs) |-> kwargs[i].name]
Levels(kwargs) == [i \in 1..Len(kwargs) |-> kwargs[i].levels]
IndexOf(seq, x) == CHOOSE i \in 1..Len(seq) : seq[i] = x

\* {f: l for f, l in zip(factors, t)}
ZipDict(factors, t) == [f \in Range(factors) |-> t[IndexOf(factors, f)]]

\* {f: l for f, l in zip(factors, trial) if f[0] != '_'}
ZipDictUnmarked(factors, t) ==
    [f \in {g \in Range(factors) : FirstChar(g) # "_"} |-> t[IndexOf(factors, f)]]

---------------------------------------------------------------------------
(* The generators.  A returned value is [objs, list]: the dicts created,   *)
(* and the returned list as references (indices) into objs.  Each operator *)
(* is the set of values the call may return, one per outcome of shuffle.   *)

Identity(n) == [i \in 1..n |-> i]

\* make_control_list without "control *= reps"
make_control_list_once(reps, shuffled, kwargs) ==
    LET factors == Factors(kwargs)
        levels  == Levels(kwargs)
        tuples  == product(levels)
        objs    == [i \in 1..Len(tuples) |-> ZipDict(factors, tuples[i])]
        control == Identity(Len(objs))
    IN  {[objs |-> objs, list |-> l] :
            l \in IF shuffled THEN Shuffles(control) ELSE {control}}

\* make_control_list that returns at once when no factor is given
make_control_list_no_factors(reps, shuffled, kwargs) ==
    LET factors == Factors(kwargs)
        levels  == Levels(kwargs)
        tuples  == IF kwargs = <<>> THEN <<>> ELSE product(levels)
        objs    == [i \in 1..Len(tuples) |-> ZipDict(factors, tuples[i])]
        control == Repeat(Identity(Len(objs)), reps)
    IN  {[objs |-> objs, list |-> l] :
            l \in IF shuffled THEN Shuffles(control) ELSE {control}}

make_control_list(reps, shuffled, kwargs) ==
    LET factors == Factors(kwargs)
        levels  == Levels(kwargs)
        tuples  == product(levels)
        objs    == [i \in 1..Len(tuples) |-> ZipDict(factors, tuples[i])]
        control == Repeat(Identity(Len(objs)), reps)
    IN  {[objs |-> objs, list |-> l] :
            l \in IF shuffled THEN Shuffles(control) ELSE {control}}

\* tmp/experiments/colour-priors.py: the same, always shuffled
rand_control_sequence(reps, kwargs) ==
    LET factors == Factors(kwargs)
        levels  == Levels(kwargs)
        tuples  == product(levels)
        objs    == [i \in 1..Len(tuples) |-> ZipDict(factors, tuples[i])]
        control == Repeat(Identity(Len(objs)), reps)
    IN  {[objs |-> objs, list |-> l] : l \in Shuffles(control)}

\* tmp/tools/control.py: no reps, '_' factors dropped from the dicts, shuffled
rand_control_sequence_old(kwargs) ==
    LET factors == Factors(kwargs)
        levels  == Levels(kwargs)
        tuples  == product(levels)
        objs    == [i \in 1..Len(tuples) |-> ZipDictUnmarked(factors, tuples[i])]
    IN  {[objs |-> objs, list |-> l] : l \in Shuffles(Identity(Len(objs)))}

\* the returned list as Python sees it: a list of dicts
AsDicts(ret) == [i \in 1..Len(ret.list) |-> ret.objs[ret.list[i]]]

---------------------------------------------------------------------------
(* Generator calls: the arguments are drawn in GenInit, one action per    *)
(* generator applies it.                                                  *)

LevelLists == UNION {[1..n -> LevelVals] : n \in 0..MaxLevels}

KwargsSet ==
    UNION {{k \in [1..n -> [name : FactorNames, levels : LevelLists]] :
              \A i, j \in 1..n : k[i].name = k[j].name => i = j}
           : n \in 0..MaxFactors}

\* product(len(levels) for levels in F.values())
RECURSIVE NCombinations(_)
NCombinations(kwargs) ==
    IF kwargs = <<>> THEN 1
    ELSE Len(Head(kwargs).levels) * NCombinations(Tail(kwargs))

GenFunctions == {"make_control_list", "rand_control_sequence",
                 "rand_control_sequence_old"}

GenArgsSet ==
    {a \in [fn : GenFunctions, reps : 0..MaxReps, shuffled : BOOLEAN,
            kwargs : KwargsSet] :
        /\ a.reps * NCombinations(a.kwargs) <= MaxList
        /\ a.fn = "rand_control_sequence" => a.shuffled
        /\ a.fn = "rand_control_sequence_old" => a.shuffled /\ a.reps = 1}

NoGenArgs == [fn |-> "none", reps |-> 0, shuffled |-> FALSE, kwargs |-> <<>>]

CallMakeControlList ==
    /\ gen_args.fn = "make_control_list"
    /\ gen_ret = None
    /\ \E r \in make_control_list(gen_args.reps, gen_args.shuffled, gen_args.kwargs) :
          gen_ret' = Some(r)
    /\ UNCHANGED <<gen_args, ses_vars>>

CallRandControlSequence ==
    /\ gen_args.fn = "rand_control_sequence"
    /\ gen_ret = None
    /\ \E r \in rand_control_sequence(gen_args.reps, gen_args.kwargs) :
          gen_ret' = Some(r)
    /\ UNCHANGED <<gen_args, ses_vars>>

CallRandControlSequenceOld ==
    /\ gen_args.fn = "rand_control_sequence_old"
    /\ gen_ret = None
    /\ \E r \in rand_control_sequence_old(gen_args.kwargs) :
          gen_ret' = Some(r)
    /\ UNCHANGED <<gen_args, ses_vars>>

---------------------------------------------------------------------------
(* The data store: tools/data.py                                          *)

\* the (subject, experiment) pairs that sessions are run for
Sessions == {<<"a_b", "c">>, <<"a", "b_c">>, <<"TEST", "c">>}

\* the experiment class that import_experiment finds under each name
ExpClass(e) == IF e = "c" THEN "ColourPriors" ELSE "Experiment"

\* self.relpath = '%s_%s.dic' % (self.subj_id, self.exp_name)
relpath(subj_id, exp_name) == subj_id \o "_" \o exp_name \o ".dic"

Paths == {relpath(k[1], k[2]) : k \in Sessions}

NoFile == [exists |-> FALSE]
\* a file that open(abspath, 'w') has emptied and dump has not completed
TruncatedFile == [exists |-> TRUE, partial |-> TRUE]

\* The attributes of a Data instance.  dic is what locals() held in
\* __init__: the arguments, and self, a reference to the instance.
NewData(subj_id, exp_name) ==
    [subj_id  |-> subj_id,
     exp_name |-> exp_name,
     proj_id  |-> "None",
     exp_done |-> FALSE,
     control  |-> None,
     results  |-> <<>>,
     relpath  |-> relpath(subj_id, exp_name),
     dic      |-> [self |-> "<self>", subj_id |-> subj_id,
                   exp_name |-> exp_name, proj_id |-> "None"]]

NoData == NewData("", "")

\* pickle of self.dic: the instance under 'self' is written with the
\* lists it holds and the dicts they refer to
Pickled(obj, hp) ==
    [x \in DOMAIN obj.dic |->
        IF x = "self"
        THEN [subj_id |-> obj.subj_id, exp_name |-> obj.exp_name,
              exp_done |-> obj.exp_done, control |-> obj.control,
              results |-> obj.results, heap |-> hp]
        ELSE obj.dic[x]]

\* Data.save: dump(self.dic, open(self.abspath, 'w'))
Data_save(fs, obj, hp) ==
    [fs EXCEPT ![obj.relpath] = [exists |-> TRUE, dic |-> Pickled(obj, hp)]]

\* Data.load without the two sanity checks
Data_load_unchecked(fs, obj) ==
    LET f == fs[obj.relpath] IN
    IF ~f.exists
    THEN [error |-> "none", found |-> FALSE, obj |-> obj, heap |-> <<>>]
    ELSE IF "dic" \notin DOMAIN f
    THEN [error |-> "EOFError", found |-> TRUE, obj |-> obj, heap |-> <<>>]
    ELSE LET dic == f.dic
             o1  == [obj EXCEPT !.dic = dic]
         IN  IF {"exp_done", "control", "results"} \subseteq DOMAIN dic
             THEN [error |-> "none", found |-> TRUE,
                   obj |-> [o1 EXCEPT !.exp_done = dic.exp_done,
                                      !.control = dic.control,
                                      !.results = dic.results],
                   heap |-> dic.self.heap]
             ELSE [error |-> "KeyError", found |-> TRUE, obj |-> o1, heap |-> <<>>]

\* Data.load: the instance and heap after the call, and the exception
\* raised.  pickle's load of a file that holds no complete pickle raises
\* EOFError.
Data_load(fs, obj) ==
    LET f == fs[obj.relpath] IN
    IF ~f.exists
    THEN [error |-> "none", found |-> FALSE, obj |-> obj, heap |-> <<>>]
    ELSE IF "dic" \notin DOMAIN f
    THEN [error |-> "EOFError", found |-> TRUE, obj |-> obj, heap |-> <<>>]
    ELSE LET dic == f.dic
             o1  == [obj EXCEPT !.dic = dic]
         IN  IF obj.subj_id # dic.subj_id
             THEN [error |-> "AssertionError", found |-> TRUE, obj |-> o1, heap |-> <<>>]
             ELSE IF obj.exp_name # dic.exp_name
             THEN [error |-> "AssertionError", found |-> TRUE, obj |-> o1, heap |-> <<>>]
             ELSE IF {"exp_done", "control", "results"} \subseteq DOMAIN dic
             THEN [error |-> "none", found |-> TRUE,
                   obj |-> [o1 EXCEPT !.exp_done = dic.exp_done,
                                      !.control = dic.control,
                                      !.results = dic.results],
                   heap |-> dic.self.heap]
             ELSE [error |-> "KeyError", found |-> TRUE, obj |-> o1, heap |-> <<>>]

\* Data.__init__
Data_init(fs, subj_id, exp_name) == Data_load(fs, NewData(subj_id, exp_name))

---------------------------------------------------------------------------
(* tmp/experiments/colour-priors.py: ColourPriors                         *)

HueDraws == {0, 350}          \* values randint(0, 360) may return
DialValues == {20, 200}     \* values of the dial (QDial, -1..359)
Elapsed == {1000, 6000}       \* values of trial_time.elapsed(), in ms
StimulusLists == {<<>>, <<"banana.png">>}   \* the listdir slice [1:2]

Call(op, s, e) == [op |-> op, subj_id |-> s, exp_name |-> e]

\* the error stored under 'err'
ResponseError(rsp, hue) ==
    LET a == rsp - hue
        b == rsp + 360 - hue
        abs(x) == IF x < 0 THEN -x ELSE x
    IN  IF abs(a) <= abs(b) THEN a ELSE b

Accept(err, rt) == err < 40 /\ 300 < rt /\ rt < 5000

\* a requeue that puts back the accepted trials instead of the rejected
Requeue_accepted(control, cur, accept) ==
    IF accept THEN Append(control, cur) ELSE control

\* "if not acceptable trial, add back to control sequence": the finished
\* trial is appended whatever the outcome
Requeue(control, cur, accept) == Append(control, cur)

\* hue of the next sample: random in mode 'random', else taken from the
\* last result of the same stimulus and chain, random if there is none
NextHue(hp, results, cur, rnd) ==
    IF hp[cur]["mode"] = "random" THEN rnd
    ELSE LET m == {i \in 1..Len(results) :
                      /\ hp[results[i]]["mode"] = "telephone"
                      /\ hp[results[i]]["stim"] = hp[cur]["stim"]
                      /\ hp[results[i]]["chain"] = hp[cur]["chain"]}
         IN  IF m # {}
             THEN hp[results[CHOOSE i \in m : \A j \in m : j <= i]]["hue"]
             ELSE rnd

\* first half of trial(): the finished trial is recorded, put back on the
\* list, and the list shuffled
RecordOutcome(obj, hp, cur, rt, rsp) ==
    IF cur = 0 THEN {[obj |-> obj, heap |-> hp]}
    ELSE LET hue    == hp[cur]["hue"]
             err    == ResponseError(rsp, hue)
             accept == Accept(err, rt)
             d      == SetItem(SetItem(SetItem(SetItem(hp[cur],
                          "rt", rt), "rsp", rsp), "err", err), "accept", accept)
             c1     == Requeue(Val(obj.control), cur, accept)
         IN  {[obj  |-> [obj EXCEPT !.results = Append(obj.results, cur),
                                    !.control = Some(c2)],
               heap |-> [hp EXCEPT ![cur] = d]] : c2 \in Shuffles(c1)}

\* second half of trial() without the base case of the chain: the last
\* matching result is indexed although there may be none
BeginNext_no_base(obj, hp, rnd) ==
    IF Val(obj.control) = <<>>
    THEN [error |-> "IndexError", obj |-> obj, heap |-> hp, cur |-> 0]
    ELSE LET c == Head(Val(obj.control))
             o == [obj EXCEPT !.control = Some(Tail(Val(obj.control)))]
             m == {i \in 1..Len(obj.results) :
                      /\ hp[obj.results[i]]["mode"] = "telephone"
                      /\ hp[obj.results[i]]["stim"] = hp[c]["stim"]
                      /\ hp[obj.results[i]]["chain"] = hp[c]["chain"]}
         IN  IF hp[c]["mode"] # "random" /\ m = {}
             THEN [error |-> "IndexError", obj |-> o, heap |-> hp, cur |-> c]
             ELSE [error |-> "none", obj |-> o,
                   heap  |-> [hp EXCEPT ![c] = SetItem(hp[c], "hue",
                                            NextHue(hp, obj.results, c, rnd))],
                   cur   |-> c]

\* second half of trial(): the next trial is taken from the list
BeginNext(obj, hp, rnd) ==
    IF Val(obj.control) = <<>>
    THEN [error |-> "IndexError", obj |-> obj, heap |-> hp, cur |-> 0]
    ELSE LET c == Head(Val(obj.control))
         IN  [error |-> "none",
              obj   |-> [obj EXCEPT !.control = Some(Tail(Val(obj.control)))],
              heap  |-> [hp EXCEPT ![c] = SetItem(hp[c], "hue",
                                            NextHue(hp, obj.results, c, rnd))],
              cur   |-> c]

\* ColourPriors.trial: the states the call may end in
ColourPriors_trial(obj, hp, cur, rt, rsp, rnd) ==
    {LET n == BeginNext(r.obj, r.heap, rnd)
     IN  IF n.error = "none" THEN n ELSE [n EXCEPT !.cur = cur]
     : r \in RecordOutcome(obj, hp, cur, rt, rsp)}

\* ColourPriors.gen_control
ColourPriors_gen_control(stimuli) ==
    rand_control_sequence(CPReps,
        << [name |-> "mode",  levels |-> <<"telephone">>],
           [name |-> "stim",  levels |-> stimuli],
           [name |-> "dur",   levels |-> <<100>>],
           [name |-> "chain", levels |-> <<0>>] >>)

---------------------------------------------------------------------------
(* experiments/rdm.py: Experiment                                         *)

\* Experiment.gen_control
Experiment_gen_control ==
    make_control_list(RdmReps, FALSE,
        << [name |-> "coherence", levels |-> <<50, 25>>],
           [name |-> "ratio",     levels |-> << <<0, 1>>, <<1, 1>> >>] >>)

\* Experiment.block: a block starts with popping an item
Experiment_block(obj) ==
    IF Val(obj.control) = <<>>
    THEN [error |-> "IndexError", obj |-> obj]
    ELSE [error |-> "none",
          obj   |-> [obj EXCEPT !.control = Some(Tail(Val(obj.control)))]]

---------------------------------------------------------------------------
(* tools/qt.py: ExpWidget                                                 *)

\* "if not self.data_obj.control and not self.data_obj.exp_done"
NeedsControl(obj) ==
    /\ obj.control = None \/ Val(obj.control) = <<>>
    /\ ~obj.exp_done

\* gen_control of the class: the control lists the call may return
gen_control(cls) ==
    IF cls = "ColourPriors"
    THEN UNION {ColourPriors_gen_control(st) : st \in StimulusLists}
    ELSE Experiment_gen_control

Outcome(err, obj, hp, cur) ==
    [error |-> err, obj |-> obj, heap |-> hp, cur |-> cur]

\* setup of the class: ColourPriors.setup ends by calling trial(),
\* Experiment.setup shows the introduction and waits for the button
setup(cls, obj, hp) ==
    IF cls = "ColourPriors"
    THEN UNION {ColourPriors_trial(obj, hp, 0, 0, 0, rnd) : rnd \in HueDraws}
    ELSE {Outcome("none", obj, hp, 0)}

\* ExpWidget.__init__: Data(s_, e_), gen_control() if there is no control
\* list, setup().  The states the construction may end in.
ExpWidget_new(fs, s, e) ==
    LET d   == Data_init(fs, s, e)
        cls == ExpClass(e)
        Result(t, g) == [error |-> t.error, obj |-> t.obj, heap |-> t.heap,
                         cur |-> t.cur, generated |-> g, load |-> d]
    IN  IF d.error # "none"
        THEN {Result(Outcome(d.error, d.obj, d.heap, 0), FALSE)}
        ELSE IF NeedsControl(d.obj)
        THEN UNION {{Result(t, TRUE) :
                        t \in setup(cls, [d.obj EXCEPT !.control = Some(g.list)],
                                    g.objs)}
                    : g \in gen_control(cls)}
        ELSE {Result(t, FALSE) : t \in setup(cls, d.obj, d.heap)}

---------------------------------------------------------------------------
(* Actions of a session                                                   *)

NoLoad == [found |-> FALSE, error |-> "none", exp_done |-> FALSE,
           control |-> None, results |-> <<>>, heap |-> <<>>]

\* MainWindow.set_central_widget: the widget of experiment e is made for
\* subject s.  An exception leaves no widget.
ExpWidget_init ==
    /\ phase = "idle"
    /\ n_runs < MaxRuns
    /\ \E <<s, e>> \in Sessions :
          \E w \in ExpWidget_new(files, s, e) :
             /\ last_call' = Call("ExpWidget", s, e)
             /\ loaded' = [found |-> w.load.found, error |-> w.load.error,
                           exp_done |-> w.load.obj.exp_done,
                           control |-> w.load.obj.control,
                           results |-> w.load.obj.results,
                           heap |-> w.load.heap]
             /\ gen_count' = IF w.generated
                             THEN [gen_count EXCEPT ![<<s, e>>] = @ + 1]
                             ELSE gen_count
             /\ error' = w.error
             /\ history' = [history EXCEPT
                              !.all_accepted = TRUE,
                              !.queued = IF w.obj.control = None THEN 0
                                         ELSE Len(Val(w.obj.control))]
             /\ IF w.error = "none"
                THEN /\ phase' = "running"
                     /\ data_obj' = w.obj
                     /\ heap' = w.heap
                     /\ current_trial_details' = w.cur
                ELSE /\ phase' = "idle"
                     /\ data_obj' = NoData
                     /\ heap' = <<>>
                     /\ current_trial_details' = 0
    /\ n_runs' = n_runs + 1
    /\ UNCHANGED <<files, n_saves, gen_vars>>

\* the subject presses Continue in ColourPriors: button.clicked -> trial
Trial ==
    /\ phase = "running"
    /\ ExpClass(data_obj.exp_name) = "ColourPriors"
    /\ Len(data_obj.results) < MaxResults
    /\ \E rt \in Elapsed, rsp \in DialValues, rnd \in HueDraws :
          \E t \in ColourPriors_trial(data_obj, heap, current_trial_details,
                                      rt, rsp, rnd) :
             /\ data_obj' = t.obj
             /\ heap' = t.heap
             /\ current_trial_details' = t.cur
             /\ error' = t.error
             /\ history' = [history EXCEPT !.all_accepted =
                                @ /\ t.heap[current_trial_details]["accept"]]
    /\ last_call' = Call("trial", data_obj.subj_id, data_obj.exp_name)
    /\ UNCHANGED <<files, phase, loaded, gen_count, n_runs, n_saves, gen_vars>>

\* the subject presses Continue in rdm: cont_button.clicked -> block (and
\* trial, which only hides the message)
Block ==
    /\ phase = "running"
    /\ ExpClass(data_obj.exp_name) = "Experiment"
    /\ LET r == Experiment_block(data_obj)
       IN  /\ data_obj' = r.obj
           /\ error' = r.error
           /\ history' = IF r.error = "none" /\ Val(r.obj.control) = <<>>
                         THEN [history EXCEPT !.exhausted = @ \cup
                                  {<<data_obj.subj_id, data_obj.exp_name>>}]
                         ELSE history
    /\ last_call' = Call("block", data_obj.subj_id, data_obj.exp_name)
    /\ UNCHANGED <<files, phase, heap, current_trial_details, loaded,
                   gen_count, n_runs, n_saves, gen_vars>>

\* ExpWidget.save
Save ==
    /\ phase = "running"
    /\ n_saves < MaxSaves
    /\ files' = Data_save(files, data_obj, heap)
    /\ n_saves' = n_saves + 1
    /\ error' = "none"
    /\ last_call' = Call("save", data_obj.subj_id, data_obj.exp_name)
    /\ UNCHANGED <<phase, data_obj, heap, current_trial_details, loaded,
                   gen_count, n_runs, history, gen_vars>>

\* the session is interrupted or closed: the process ends, the files stay
Quit ==
    /\ phase = "running"
    /\ phase' = "idle"
    /\ data_obj' = NoData
    /\ heap' = <<>>
    /\ current_trial_details' = 0
    /\ error' = "none"
    /\ last_call' = Call("quit", "", "")
    /\ loaded' = NoLoad
    /\ history' = [history EXCEPT !.all_accepted = TRUE, !.queued = 0]
    /\ UNCHANGED <<files, gen_count, n_runs, n_saves, gen_vars>>

SesInit ==
    /\ files = [p \in Paths |-> NoFile]
    /\ phase = "idle"
    /\ data_obj = NoData
    /\ heap = <<>>
    /\ current_trial_details = 0
    /\ error = "none"
    /\ last_call = Call("none", "", "")
    /\ loaded = NoLoad
    /\ gen_count = [k \in Sessions |-> 0]
    /\ n_runs = 0
    /\ n_saves = 0
    /\ history = [exhausted |-> {}, all_accepted |-> TRUE, queued |-> 0]

Init ==
    /\ gen_args = NoGenArgs
    /\ gen_ret = None
    /\ SesInit

Next ==
    \/ ExpWidget_init
    \/ Trial
    \/ Block
    \/ Save
    \/ Quit

Spec == Init /\ [][Next]_vars

GenInit ==
    /\ gen_args \in GenArgsSet
    /\ gen_ret = None
    /\ SesInit

GenNext ==
    \/ CallMakeControlList
    \/ CallRandControlSequence
    \/ CallRandControlSequenceOld

GenSpec == GenInit /\ [][GenNext]_vars

---------------------------------------------------------------------------
(* Properties of the generators, checked under GenSpec                    *)

Returned == gen_ret # None
Ret == Val(gen_ret)
Count(seq, x) == Cardinality({i \in 1..Len(seq) : seq[i] = x})

\* the levels of every factor are pairwise distinct
DistinctLevels(kwargs) ==
    \A i \in 1..Len(kwargs) :
        \A j, k \in 1..Len(kwargs[i].levels) :
            kwargs[i].levels[j] = kwargs[i].levels[k] => j = k

\* the factor-level combinations of the cross product, as dicts
Combinations(kwargs) ==
    {c \in [Range(Factors(kwargs)) -> LevelVals] :
        \A i \in 1..Len(kwargs) : c[kwargs[i].name] \in Range(kwargs[i].levels)}

\* C1: for every reps >= 0 and all factors, the list returned by
\* make_control_list (shuffled or not; rand_control_sequence(reps, ...) is
\* the always-shuffled variant) has length reps times the product of the
\* numbers of levels; reps = 0 gives the empty list.
C1_Length ==
    Returned /\ gen_args.fn \in {"make_control_list", "rand_control_sequence"}
    => Len(Ret.list) = gen_args.reps * NCombinations(gen_args.kwargs)

C1_Witness ==
    /\ Returned
    /\ gen_args.fn = "make_control_list"
    /\ gen_args.shuffled
    /\ gen_args.reps = 2
    /\ Len(gen_args.kwargs) = 2
    /\ Len(Ret.list) = 4

\* C2: with pairwise distinct levels, every combination of the cross
\* product appears exactly reps times in the list make_control_list
\* returns, nothing else appears, and the shuffled list has the same
\* multiset of descriptors as the unshuffled one.
C2_Balanced ==
    Returned /\ gen_args.fn = "make_control_list" /\ DistinctLevels(gen_args.kwargs)
    => LET out   == AsDicts(Ret)
           plain == AsDicts(Val(make_control_list(gen_args.reps, FALSE,
                                                  gen_args.kwargs)))
       IN  /\ \A c \in Combinations(gen_args.kwargs) :
                 Count(out, c) = gen_args.reps
           /\ \A i \in 1..Len(out) : out[i] \in Combinations(gen_args.kwargs)
           /\ Len(out) = Len(plain)
           /\ \A i \in 1..Len(plain) : Count(out, plain[i]) = Count(plain, plain[i])

C2_Witness ==
    /\ Returned
    /\ gen_args.fn = "make_control_list"
    /\ gen_args.shuffled
    /\ DistinctLevels(gen_args.kwargs)
    /\ gen_args.reps = 2
    /\ NCombinations(gen_args.kwargs) = 2
    /\ Ret.list = <<2, 1, 1, 2>>

\* C3: a factor whose name begins with '_' is never a key of a descriptor
\* that a generator emits, and the length of the emitted list is still
\* multiplied by the factor's number of levels.
C3_MarkedFactorsDropped ==
    Returned
    => /\ \A i \in 1..Len(Ret.list) :
             \A k \in DOMAIN Ret.objs[Ret.list[i]] : FirstChar(k) # "_"
       /\ Len(Ret.list) = gen_args.reps * NCombinations(gen_args.kwargs)

---------------------------------------------------------------------------
(* Properties of the store and the sessions, checked under Spec           *)

Control == Val(data_obj.control)
Constructed == last_call.op = "ExpWidget"

\* the file at the path of (s, e) holds the record of another pair
Mismatch(fs, s, e) ==
    /\ fs[relpath(s, e)].exists
    /\ \/ fs[relpath(s, e)].dic.subj_id # s
       \/ fs[relpath(s, e)].dic.exp_name # e

\* the file at the path of (s, e) holds a record saved for (s, e)
Stored(fs, s, e) ==
    /\ fs[relpath(s, e)].exists
    /\ fs[relpath(s, e)].dic.subj_id = s
    /\ fs[relpath(s, e)].dic.exp_name = e

\* C4: after Data.save(), constructing Data for the same (subj_id,
\* exp_name) loads without error and yields the control, results and
\* exp_done the record held when it was saved.
C4_RoundTrip ==
    Constructed /\ Stored(files, last_call.subj_id, last_call.exp_name)
    => LET saved == files[relpath(last_call.subj_id, last_call.exp_name)].dic.self
       IN  /\ loaded.error = "none"
           /\ loaded.exp_done = saved.exp_done
           /\ loaded.control = saved.control
           /\ loaded.results = saved.results
           /\ loaded.heap = saved.heap

\* C5: Data.load of a stored record whose subject id or experiment name
\* differs from the requested pair fails with the assertion error, no
\* record is yielded, and the stored file is left as it was.
C5_MismatchRejected ==
    [][(/\ n_runs' = n_runs + 1
        /\ Mismatch(files, last_call'.subj_id, last_call'.exp_name))
       => /\ error' = "AssertionError"
          /\ loaded'.error = "AssertionError"
          /\ phase' = "idle"
          /\ data_obj' = NoData
          /\ files' = files]_vars

C5_Witness ==
    /\ Constructed
    /\ Mismatch(files, last_call.subj_id, last_call.exp_name)
    /\ error = "AssertionError"

\* C6: with subject id 'TEST' nothing is ever written: no record of the
\* subject TEST exists in the data directory.
C6_TestNeverStored ==
    \A p \in Paths : files[p].exists => files[p].dic.subj_id # "TEST"

\* C7: over any sequence of runs, interruptions and resumes of one
\* (subject, experiment) pair, gen_control is called at most once.
C7_GenControlOnce ==
    \A k \in Sessions : gen_count[k] <= 1

\* a step of ColourPriors.trial that records the outcome of the trial
\* that was current
OutcomeRecorded ==
    /\ last_call'.op = "trial"
    /\ current_trial_details # 0
    /\ Len(data_obj'.results) = Len(data_obj.results) + 1

\* C8: when the outcome of the finished trial is accepted, the descriptor
\* is consumed: the control list is one shorter after the call.
C8_AcceptedConsumed ==
    [][OutcomeRecorded /\ heap'[current_trial_details]["accept"]
       => Len(Val(data_obj'.control)) = Len(Control) - 1]_vars

\* C9: when the outcome is rejected, trial appends it to results, puts the
\* descriptor back on the control list, shuffles and pops the next trial:
\* the control list keeps its length and the rejected descriptor is still
\* scheduled (on the list, or current again).
C9_RejectedRequeued ==
    [][OutcomeRecorded /\ ~heap'[current_trial_details]["accept"]
       => /\ data_obj'.results = Append(data_obj.results, current_trial_details)
          /\ Len(Val(data_obj'.control)) = Len(Control)
          /\ \/ current_trial_details \in Range(Val(data_obj'.control))
             \/ current_trial_details' = current_trial_details
          /\ error' = "none"]_vars

C9_Witness ==
    /\ last_call.op = "trial"
    /\ data_obj.results # <<>>
    /\ ~heap[data_obj.results[Len(data_obj.results)]]["accept"]
    /\ heap[data_obj.results[Len(data_obj.results)]]["rt"] = 6000
    /\ Len(Control) = CPReps - 1
    /\ current_trial_details # 0

\* C10: the control list of a record is empty if and only if exp_done is
\* true or the experiment was never started (the list is still None).
C10_EmptyIffDone ==
    (data_obj.control = None \/ Control = <<>>)
    <=> (data_obj.exp_done \/ data_obj.control = None)

---------------------------------------------------------------------------
(* Advancing a session                                                    *)

Advanced(op) == last_call'.op = op

\* C11: an advance (ColourPriors.trial, Experiment.block) made once the
\* control list has become empty fails with the AlreadyComplete error and
\* changes neither the control list nor results.
C11_AlreadyComplete ==
    [][(/\ phase = "running"
        /\ data_obj.control # None
        /\ Control = <<>>
        /\ (Advanced("trial") \/ Advanced("block")))
       => (/\ error' = "AlreadyComplete"
           /\ data_obj'.control = data_obj.control
           /\ data_obj'.results = data_obj.results)]_vars

\* C12: every trial call that records an outcome or pops a trial is
\* followed by a save before the next event: after the call the file of
\* the session holds the control list and the results of the session.
C12_SavedAfterAdvance ==
    [][(/\ Advanced("trial")
        /\ error' = "none"
        /\ data_obj.subj_id # "TEST")
       => (/\ Stored(files', data_obj.subj_id, data_obj.exp_name)
           /\ files'[data_obj.relpath].dic["self"].results = data_obj'.results
           /\ files'[data_obj.relpath].dic["self"].control = data_obj'.control
           /\ files'[data_obj.relpath].dic["self"].heap = heap')]_vars

---------------------------------------------------------------------------
(* The response error as a function of the response and the sample hue    *)

DialMin == -1       \* QDial(minimum=-1, maximum=359)
HueMax == 360       \* randint(0, 360)

ErrArgsSet ==
    [fn : {"ResponseError"}, rsp : DialMin..HueMax, hue : DialMin..HueMax]

\* the expression ColourPriors.trial stores under 'err', evaluated for one
\* response and one sample hue
CallResponseError ==
    /\ gen_args.fn = "ResponseError"
    /\ gen_ret = None
    /\ gen_ret' = Some(ResponseError(gen_args.rsp, gen_args.hue))
    /\ UNCHANGED <<gen_args, ses_vars>>

ErrInit ==
    /\ gen_args \in ErrArgsSet
    /\ gen_ret = None
    /\ SesInit

ErrNext ==
    \/ CallResponseError

ErrSpec == ErrInit /\ [][ErrNext]_vars

\* the distance between two hues on the colour circle of 360 degrees
CircularDistance(x, y) ==
    LET d == (x - y) % 360
    IN  IF d <= 180 THEN d ELSE 360 - d

\* C13: for every response and sample hue in -1..360 the 'err' that
\* ColourPriors.trial stores is the circular distance between them, a
\* number from 0 to 180.
C13_ErrIsCircularDistance ==
    Returned =>
        /\ Val(gen_ret) = CircularDistance(gen_args.rsp, gen_args.hue)
        /\ Val(gen_ret) >= 0
        /\ Val(gen_ret) <= 180

\* C14: the error does not change when the sample hue goes once round
\* the circle: the error of (rsp, hue + 360) is the error of (rsp, hue).
C14_WrapInvariant ==
    Returned =>
        ResponseError(gen_args.rsp, gen_args.hue + 360) = Val(gen_ret)

---------------------------------------------------------------------------
(* The telephone chain                                                    *)

IsColourPriors(e) == ExpClass(e) = "ColourPriors"

\* the results of the same stimulus and chain as the current trial
Matching ==
    {i \in 1..Len(data_obj.results) :
        /\ heap[data_obj.results[i]]["mode"] = "telephone"
        /\ heap[data_obj.results[i]]["stim"] =
               heap[current_trial_details]["stim"]
        /\ heap[data_obj.results[i]]["chain"] =
               heap[current_trial_details]["chain"]}

LastMatching == heap[data_obj.results[CHOOSE i \in Matching :
                                          \A j \in Matching : j <= i]]

\* C15: a trial in telephone mode that follows a completed trial of the
\* same stimulus and chain shows as its sample hue the response the
\* subject gave on the most recent such trial.
C15_ChainsResponse ==
    (/\ last_call.op = "trial"
     /\ error = "none"
     /\ current_trial_details # 0
     /\ heap[current_trial_details]["mode"] = "telephone"
     /\ Matching # {})
    => heap[current_trial_details]["hue"] = LastMatching["rsp"]

\* C16: the first trial of a fresh ColourPriors session, a telephone trial
\* that no completed trial precedes, raises no error and gets a random hue
\* of the range; the construction fails only when there is no item to pop.
C16_BaseCaseDrawsHue ==
    (/\ Constructed
     /\ IsColourPriors(last_call.exp_name)
     /\ loaded.error = "none"
     /\ ~loaded.found)
    => IF error = "none"
       THEN /\ phase = "running"
            /\ data_obj.results = <<>>
            /\ current_trial_details # 0
            /\ heap[current_trial_details]["mode"] = "telephone"
            /\ "hue" \in DOMAIN heap[current_trial_details]
            /\ heap[current_trial_details]["hue"] \in HueDraws
       ELSE /\ error = "IndexError"
            /\ history.queued = 0

C16_Witness ==
    /\ Constructed
    /\ phase = "running"
    /\ IsColourPriors(data_obj.exp_name)
    /\ data_obj.results = <<>>
    /\ current_trial_details # 0
    /\ heap[current_trial_details]["mode"] = "telephone"
    /\ heap[current_trial_details]["hue"] = 350

---------------------------------------------------------------------------
(* Resuming and repeating a session                                       *)

\* the Data instance pickled in the file of (s, e)
Saved(s, e) == files[relpath(s, e)].dic["self"]

\* C17: a run that finds a stored record with exp_done false starts with
\* the control list and the results as they were saved, and the first
\* trial it presents is the head of the saved control list.
C17_ResumeFromStored ==
    LET s == last_call.subj_id
        e == last_call.exp_name
    IN  (/\ Constructed
         /\ Stored(files, s, e)
         /\ ~Saved(s, e).exp_done
         /\ Saved(s, e).control # None
         /\ Val(Saved(s, e).control) # <<>>)
        => /\ error = "none"
           /\ phase = "running"
           /\ data_obj.results = Saved(s, e).results
           /\ IF IsColourPriors(e)
              THEN /\ current_trial_details = Head(Val(Saved(s, e).control))
                   /\ Control = Tail(Val(Saved(s, e).control))
              ELSE Control = Val(Saved(s, e).control)

\* C18: once a subject has worked through the whole control list of an
\* experiment, no later run for the same pair generates a control list
\* again or has a trial to present.
C18_NoSecondCompletion ==
    \A k \in history.exhausted :
        /\ gen_count[k] <= 1
        /\ (/\ phase = "running"
            /\ data_obj.subj_id = k[1]
            /\ data_obj.exp_name = k[2])
           => Control = <<>>

\* C19: a ColourPriors session whose control list was generated with N
\* items and in which every response was accepted is done after N trials:
\* the control list is empty and exp_done is set.
C19_AllAcceptedReachesDone ==
    (/\ phase = "running"
     /\ IsColourPriors(data_obj.exp_name)
     /\ history.all_accepted
     /\ Len(data_obj.results) = history.queued + 1)
    => /\ Control = <<>>
       /\ data_obj.exp_done

---------------------------------------------------------------------------
(* The backing location of a record                                       *)

ProjIds == {"None", "p"}
Timestamps == {1, 2}
data_path == "data"

\* Data.__init__ with a project directory, as the data module that
\* preceded tools/data.py laid the files out
Data_new_by_project(subj_id, exp_name, proj_id, timestamp) ==
    [subj_id   |-> subj_id,
     exp_name  |-> exp_name,
     timestamp |-> timestamp,
     proj_id   |-> proj_id,
     exp_done  |-> FALSE,
     control   |-> None,
     results   |-> <<>>,
     relpath   |-> proj_id \o "/" \o relpath(subj_id, exp_name),
     abspath   |-> data_path \o "/" \o proj_id \o "/"
                      \o relpath(subj_id, exp_name)]

\* Data.__init__ up to the call of load(): the attributes of an instance
\* made at time timestamp
Data_new(subj_id, exp_name, proj_id, timestamp) ==
    [subj_id   |-> subj_id,
     exp_name  |-> exp_name,
     timestamp |-> timestamp,
     proj_id   |-> proj_id,
     exp_done  |-> FALSE,
     control   |-> None,
     results   |-> <<>>,
     relpath   |-> relpath(subj_id, exp_name),
     abspath   |-> data_path \o "/" \o relpath(subj_id, exp_name)]

DataArgs ==
    [subj_id : {k[1] : k \in Sessions}, exp_name : {k[2] : k \in Sessions},
     proj_id : ProjIds, timestamp : Timestamps]

PathArgsSet == [fn : {"Data"}, first : DataArgs, second : DataArgs]

\* two Data instances are constructed
CallData ==
    /\ gen_args.fn = "Data"
    /\ gen_ret = None
    /\ LET a == gen_args.first
           b == gen_args.second
       IN  gen_ret' = Some(<<Data_new(a.subj_id, a.exp_name, a.proj_id,
                                      a.timestamp),
                             Data_new(b.subj_id, b.exp_name, b.proj_id,
                                      b.timestamp)>>)
    /\ UNCHANGED <<gen_args, ses_vars>>

PathInit ==
    /\ gen_args \in PathArgsSet
    /\ gen_ret = None
    /\ SesInit

PathNext ==
    \/ CallData

PathSpec == PathInit /\ [][PathNext]_vars

SamePair == /\ gen_args.first.subj_id = gen_args.second.subj_id
            /\ gen_args.first.exp_name = gen_args.second.exp_name

\* C20: two Data objects constructed for the same (subj_id, exp_name), at
\* different times or with different proj_id, use the same path.
C20_PathOfPair ==
    (Returned /\ SamePair)
    => /\ Ret[1].relpath = Ret[2].relpath
       /\ Ret[1].abspath = Ret[2].abspath

C20_Witness ==
    /\ Returned
    /\ SamePair
    /\ gen_args.first.proj_id # gen_args.second.proj_id
    /\ gen_args.first.timestamp # gen_args.second.timestamp
    /\ Ret[1].abspath = "data/a_b_c.dic"

---------------------------------------------------------------------------
(* data.py: the data module that preceded tools/data.py                   *)

LegacySubjects == {"a", "TEST"}
LegacyTimes == {1, 2, 3}
proj_id == "p"
test_name == "t"

data_abs_filename(subj_id, initialised) ==
    data_path \o "/" \o proj_id \o "/" \o subj_id \o "/"
        \o ToString(initialised) \o ".data"

LegacyPaths ==
    {data_abs_filename(s, t) : s \in LegacySubjects, t \in LegacyTimes}

\* Data.__init__ of data.py at time now
LegacyData(subj_id, now) ==
    [subj_id           |-> subj_id,
     proj_id           |-> proj_id,
     test_name         |-> test_name,
     initialised       |-> now,
     last_opened       |-> now,
     last_updated      |-> now,
     data_abs_filename |-> data_abs_filename(subj_id, now),
     control           |-> None,
     test_started      |-> FALSE,
     test_done         |-> FALSE]

\* save_data
save_data(fs, obj) ==
    IF obj.subj_id # "TEST"
    THEN [fs EXCEPT ![obj.data_abs_filename] =
             [exists |-> TRUE, obj |-> obj]]
    ELSE fs

\* load_data: "if exists(...) is False" guards the open for reading, so
\* the open happens exactly when there is no file.  lang and user_id are
\* stored only; proj_id and test_name are the same in every call here.
load_data(fs, subj_id, create_if_not_found, now) ==
    LET new_obj == LegacyData(subj_id, now)
    IN  IF ~fs[new_obj.data_abs_filename].exists
        THEN [error |-> "IOError", ret |-> None]
        ELSE [error |-> "none",
              ret   |-> IF create_if_not_found THEN Some(new_obj) ELSE None]

\* the instances a test that ran at time t has saved
SavedInstance(subj_id, t) ==
    [LegacyData(subj_id, t) EXCEPT !.test_started = TRUE]

RECURSIVE SaveAll(_, _)
SaveAll(fs, objs) ==
    IF objs = {} THEN fs
    ELSE LET o == CHOOSE x \in objs : TRUE
         IN  SaveAll(save_data(fs, o), objs \ {o})

LegacyFileSystems ==
    {SaveAll([p \in LegacyPaths |-> NoFile], objs) :
        objs \in SUBSET {SavedInstance(s, t) :
                            s \in LegacySubjects, t \in LegacyTimes}}

LoadArgsSet ==
    [fn : {"load_data"}, subj_id : LegacySubjects,
     create_if_not_found : BOOLEAN, now : LegacyTimes]

CallLoadData ==
    /\ gen_args.fn = "load_data"
    /\ last_call.op = "none"
    /\ gen_ret' = Some(load_data(files, gen_args.subj_id,
                                 gen_args.create_if_not_found, gen_args.now))
    /\ last_call' = Call("load_data", gen_args.subj_id, test_name)
    /\ UNCHANGED <<gen_args, files, phase, data_obj, heap,
                   current_trial_details, error, loaded, gen_count, n_runs,
                   n_saves, history>>

\* Data.update of the instance that load_data returned
LegacyUpdate ==
    /\ last_call.op = "load_data"
    /\ Val(gen_ret).ret # None
    /\ \E t \in LegacyTimes :
          files' = save_data(files,
                      [Val(Val(gen_ret).ret) EXCEPT !.last_updated = t])
    /\ last_call' = Call("update", gen_args.subj_id, test_name)
    /\ UNCHANGED <<gen_args, gen_ret, phase, data_obj, heap,
                   current_trial_details, error, loaded, gen_count, n_runs,
                   n_saves, history>>

LegacyInit ==
    /\ gen_args \in LoadArgsSet
    /\ gen_ret = None
    /\ files \in LegacyFileSystems
    /\ phase = "idle"
    /\ data_obj = NoData
    /\ heap = <<>>
    /\ current_trial_details = 0
    /\ error = "none"
    /\ last_call = Call("none", "", "")
    /\ loaded = NoLoad
    /\ gen_count = [k \in Sessions |-> 0]
    /\ n_runs = 0
    /\ n_saves = 0
    /\ history = [exhausted |-> {}, all_accepted |-> TRUE, queued |-> 0]

LegacyNext ==
    \/ CallLoadData
    \/ LegacyUpdate

LegacySpec == LegacyInit /\ [][LegacyNext]_vars

\* the instances saved for the subject and test of the call
SavedFor(subj_id) ==
    {files[p].obj : p \in {q \in LegacyPaths :
                              /\ files[q].exists
                              /\ files[q].obj.subj_id = subj_id
                              /\ files[q].obj.test_name = test_name}}

\* C21: load_data returns the saved instance of the subject and test when
\* one has been saved, a new instance only when none has (and
\* create_if_not_found is true), and does not fail for want of a record.
C21_LoadReturnsSaved ==
    last_call.op = "load_data" =>
        LET r     == Val(gen_ret)
            saved == SavedFor(gen_args.subj_id)
        IN  /\ r.error = "none"
            /\ saved # {} =>
                  /\ r.ret # None
                  /\ \E o \in saved :
                        Val(r.ret) = [o EXCEPT !.last_opened = gen_args.now]
            /\ (saved = {} /\ gen_args.create_if_not_found) =>
                  r.ret = Some(LegacyData(gen_args.subj_id, gen_args.now))

---------------------------------------------------------------------------
(* tools/qt.py: MainWindow and the list of experiments given with -e      *)

\* the lists begin with rdm, whose control list runs out
BatchSubjects == {"a", "TEST"}
BatchLists == {<<>>, <<"b_c">>, <<"b_c", "c">>, <<"b_c", "b_c">>}
BatchPairs == {<<s, e>> : s \in BatchSubjects, e \in {"c", "b_c"}}

BatchArgsSet ==
    [fn : {"MainWindow"}, subj_id : BatchSubjects, exp_names : BatchLists]

\* MainWindow.__init__: the arguments are parsed and set_central_widget is
\* called, the only call of it in the program.  The window is gen_ret:
\* exp_names and exp_name are its attributes, shown lists the experiments
\* that were made its central widget, crashed tells that the constructor
\* of a widget raised, closed that close() was called.
MainWindow_init ==
    /\ gen_args.fn = "MainWindow"
    /\ gen_ret = None
    /\ IF gen_args.exp_names # <<>>
       THEN LET s == gen_args.subj_id
                e == Head(gen_args.exp_names)
            IN  \E w \in ExpWidget_new(files, s, e) :
                   /\ gen_ret' = Some(
                         [exp_names |-> Tail(gen_args.exp_names),
                          exp_name  |-> Some(e),
                          shown     |-> IF w.error = "none" THEN <<e>>
                                        ELSE <<>>,
                          crashed   |-> w.error # "none",
                          closed    |-> FALSE])
                   /\ last_call' = Call("ExpWidget", s, e)
                   /\ loaded' = [found |-> w.load.found,
                                 error |-> w.load.error,
                                 exp_done |-> w.load.obj.exp_done,
                                 control |-> w.load.obj.control,
                                 results |-> w.load.obj.results,
                                 heap |-> w.load.heap]
                   /\ gen_count' = IF w.generated
                                   THEN [gen_count EXCEPT ![<<s, e>>] = @ + 1]
                                   ELSE gen_count
                   /\ error' = w.error
                   /\ history' = [history EXCEPT
                                    !.all_accepted = TRUE,
                                    !.queued = IF w.obj.control = None THEN 0
                                               ELSE Len(Val(w.obj.control))]
                   /\ IF w.error = "none"
                      THEN /\ phase' = "running"
                           /\ data_obj' = w.obj
                           /\ heap' = w.heap
                           /\ current_trial_details' = w.cur
                      ELSE /\ phase' = "idle"
                           /\ data_obj' = NoData
                           /\ heap' = <<>>
                           /\ current_trial_details' = 0
                   /\ n_runs' = n_runs + 1
       ELSE /\ gen_ret' = Some([exp_names |-> <<>>, exp_name |-> None,
                                shown |-> <<>>, crashed |-> FALSE,
                                closed |-> TRUE])
            /\ UNCHANGED <<phase, data_obj, heap, current_trial_details,
                           error, last_call, loaded, gen_count, n_runs,
                           history>>
    /\ UNCHANGED <<gen_args, files, n_saves>>

BatchInit ==
    /\ gen_args \in BatchArgsSet
    /\ gen_ret = None
    /\ files = [p \in {relpath(k[1], k[2]) : k \in BatchPairs} |-> NoFile]
    /\ phase = "idle"
    /\ data_obj = NoData
    /\ heap = <<>>
    /\ current_trial_details = 0
    /\ error = "none"
    /\ last_call = Call("none", "", "")
    /\ loaded = NoLoad
    /\ gen_count = [k \in BatchPairs |-> 0]
    /\ n_runs = 0
    /\ n_saves = 0
    /\ history = [exhausted |-> {}, all_accepted |-> TRUE, queued |-> 0]

BatchNext ==
    \/ MainWindow_init
    \/ Block
    \/ Save

\* the event loop delivers every event that is pending
BatchSpec == BatchInit /\ [][BatchNext]_vars /\ WF_vars(BatchNext)

\* C22: every experiment named with -e is eventually made the central
\* widget, in the order given and each once (unless the constructor of a
\* widget raises).
C22_EveryExperimentShown ==
    <>(/\ Returned
       /\ \/ Ret.shown = gen_args.exp_names
          \/ Ret.crashed)

---------------------------------------------------------------------------
(* Outcomes                                                               *)

\* the outcome entries of the session, in the order they were appended
Entry(i) == heap[data_obj.results[i]]

\* C23: a finished trial is marked accepted exactly when the circular
\* distance between response and sample hue is below 40 and the reaction
\* time lies strictly between 300 and 5000.
C23_AcceptIffWithinBounds ==
    (phase = "running" /\ last_call.op = "trial") =>
        LET d == Entry(Len(data_obj.results))
        IN  d["accept"] <=> /\ CircularDistance(d["rsp"], d["hue"]) < 40
                            /\ 300 < d["rt"]
                            /\ d["rt"] < 5000

\* C24: an item leaves the control list only when its trial or block has
\* been completed: within a session the list gets shorter only in a step
\* that records an outcome.
C24_LeavesOnlyWhenCompleted ==
    [][(/\ phase = "running"
        /\ phase' = "running"
        /\ Len(Val(data_obj'.control)) < Len(Control))
       => Len(data_obj'.results) > Len(data_obj.results)]_vars

\* C25: results is append-only: a trial only appends to it, and the
\* fields of an entry that has been appended are not changed by any
\* later trial.
C25_ResultsAppendOnly ==
    [][(phase = "running" /\ phase' = "running")
       => /\ Len(data_obj'.results) >= Len(data_obj.results)
          /\ \A i \in 1..Len(data_obj.results) :
                heap'[data_obj'.results[i]] = heap[data_obj.results[i]]]_vars

---------------------------------------------------------------------------
(* Generated lists: the empty cross product, and sharing of descriptors   *)

NoFactorsCall ==
    /\ gen_args.fn = "make_control_list"
    /\ gen_args.kwargs = <<>>
    /\ gen_args.reps = 1

\* C26: make_control_list called with no factors and reps = 1 returns
\* exactly one descriptor, and that descriptor has no fields.
C26_NoFactorsOneEmptyDescriptor ==
    (Returned /\ NoFactorsCall)
    => /\ Len(Ret.list) = 1
       /\ DOMAIN AsDicts(Ret)[1] = {}

C26_Witness ==
    /\ Returned
    /\ NoFactorsCall
    /\ gen_args.shuffled
    /\ Len(AsDicts(Ret)) = 1
    /\ DOMAIN AsDicts(Ret)[1] = {}

RuntimeFields == {"hue", "rsp", "rt", "err", "accept"}

\* C27: the descriptors of a list generated with reps > 1 are independent:
\* when the first trial of a fresh ColourPriors session has been popped
\* and given its hue, no descriptor still on the control list has
\* received a runtime field.
C27_DescriptorsIndependent ==
    (/\ Constructed
     /\ phase = "running"
     /\ IsColourPriors(data_obj.exp_name)
     /\ data_obj.results = <<>>)
    => \A j \in 1..Len(Control) :
          DOMAIN heap[Control[j]] \cap RuntimeFields = {}

\* C28: Data maps distinct (subj_id, exp_name) pairs to distinct backing
\* locations.
C28_DistinctPairsDistinctPaths ==
    (Returned /\ ~SamePair) => Ret[1].abspath # Ret[2].abspath

---------------------------------------------------------------------------
(* Interruption of Data.save                                              *)

\* the process is killed inside Data.save, after open(self.abspath, 'w')
\* has emptied the file and before dump has written the pickle out
SaveInterrupted ==
    /\ phase = "running"
    /\ n_saves < MaxSaves
    /\ files' = [files EXCEPT ![data_obj.relpath] = TruncatedFile]
    /\ n_saves' = n_saves + 1
    /\ phase' = "idle"
    /\ data_obj' = NoData
    /\ heap' = <<>>
    /\ current_trial_details' = 0
    /\ error' = "none"
    /\ last_call' = Call("quit", "", "")
    /\ loaded' = NoLoad
    /\ history' = [history EXCEPT !.all_accepted = TRUE, !.queued = 0]
    /\ UNCHANGED <<gen_count, n_runs, gen_vars>>

CrashNext ==
    \/ ExpWidget_init
    \/ Trial
    \/ Block
    \/ Save
    \/ SaveInterrupted
    \/ Quit

CrashSpec == Init /\ [][CrashNext]_vars

\* C29: whenever a session is interrupted, Data.save included, every
\* backing location holds no record or a complete one, and the next load
\* does not fail on an empty or partial file.
C29_NoPartialRecord ==
    /\ \A p \in Paths : files[p].exists => "dic" \in DOMAIN files[p]
    /\ Constructed => loaded.error # "EOFError"

====
